---- MODULE Spec2Model ----
(***************************************************************************)
(* LiftLog workout tracker (src/workout_tracker.py).                       *)
(*                                                                         *)
(* The store is the SQLite table workout_logs plus the sqlite_sequence     *)
(* counter that AUTOINCREMENT keeps for it.  Every user action is one run  *)
(* of the Streamlit script main(): the click handler (add or delete),      *)
(* then the reload of the data frame by load_logs().  Text is modelled as  *)
(* a sequence of character codes, so that str.strip(), the ISO form of a   *)
(* date, SQLite's text comparison and Python's string comparison are       *)
(* computed and not assumed.  Weights are counted in a unit in which the   *)
(* modelled values are whole numbers; floating-point rounding is not       *)
(* modelled.                                                               *)
(***************************************************************************)
EXTENDS Integers, Sequences, FiniteSets, TLC

VARIABLES
    table,      \* rows of workout_logs (a set of records, keyed by id)
    seq,        \* sqlite_sequence.seq of workout_logs: largest rowid ever used
    assigned,   \* history: the ids INSERT has assigned, in call order
    event,      \* the click the last script run handled, with the widget values it read
    call,       \* the database helper that run called, with its arguments
    ret,        \* what that helper returned to main()
    msg,        \* the message the handler showed
    df,         \* the data frame load_logs() returned in the last script run
    view,       \* what the run rendered from df
    before      \* history: the table as the last run found it, when that run
                \* added a row; empty after any other run

vars == <<table, seq, assigned, event, call, ret, msg, df, view, before>>

----------------------------------------------------------------------------
(* Bounds of the model *)

MaxAdds == 2        \* rows inserted over a run of the model
MaxSets == 2        \* largest "Sets" value entered
MaxReps == 2        \* largest "Reps" value entered
MaxWeight == 1      \* largest "Weight" value entered
AggRows == 7        \* rows logged by the session of SpecAgg

(* Program constants *)

SetsMin == 1        \* number_input("Sets", min_value=1)
RepsMin == 1        \* number_input("Reps", min_value=1)
WeightMin == 0      \* number_input("Weight", min_value=0.0)
TopN == 5           \* .head(5)

(* Values the widgets deliver: the widget's minimum and the model's maximum *)
SetsValues == {SetsMin, MaxSets}
RepsValues == {RepsMin, MaxReps}
WeightValues == {WeightMin, MaxWeight}

(* The <<sets, reps, weight>> entered in the form: every combination with a
   weight, and the smallest entry the widgets allow (1 x 1 at weight 0) *)
NumberInputs ==
    {n \in SetsValues \X RepsValues \X WeightValues :
        n[3] = WeightMin => n[1] = SetsMin /\ n[2] = RepsMin}

(* date_input values, as <<year, month, day>> *)
Dates == { <<2024, 2, 10>>, <<2024, 10, 2>> }

(* text_input values: "", " \t", "S", " B " *)
ExerciseInputs == { <<>>, <<32, 9>>, <<83>>, <<32, 66, 32>> }

----------------------------------------------------------------------------
(* Text *)

Max(S) == CHOOSE x \in S : \A y \in S : y <= x

IsSpace(c) == c \in {9, 10, 11, 12, 13, 28, 29, 30, 31, 32}

RECURSIVE lstrip(_)
lstrip(s) == IF s # <<>> /\ IsSpace(Head(s)) THEN lstrip(Tail(s)) ELSE s

RECURSIVE rstrip(_)
rstrip(s) ==
    IF s # <<>> /\ IsSpace(s[Len(s)]) THEN rstrip(SubSeq(s, 1, Len(s) - 1)) ELSE s

(* str.strip() *)
strip(s) == rstrip(lstrip(s))

(* Comparison of two texts code by code; a proper prefix is smaller.  This is
   SQLite's BINARY collation and Python's str comparison. *)
RECURSIVE TextLess(_, _)
TextLess(a, b) ==
    IF b = <<>> THEN FALSE
    ELSE IF a = <<>> THEN TRUE
    ELSE IF Head(a) # Head(b) THEN Head(a) < Head(b)
    ELSE TextLess(Tail(a), Tail(b))

(* n as `width` decimal digits, zero padded ("%0<width>d") *)
Pad(n, width) == [i \in 1..width |-> 48 + ((n \div (10 ^ (width - i))) % 10)]

(* str(date): date.isoformat(), "%04d-%02d-%02d" *)
isoformat(d) == Pad(d[1], 4) \o <<45>> \o Pad(d[2], 2) \o <<45>> \o Pad(d[3], 2)

(* The decimal value of a run of digits *)
RECURSIVE Num(_)
Num(s) == IF s = <<>> THEN 0 ELSE 10 * Num(SubSeq(s, 1, Len(s) - 1)) + (s[Len(s)] - 48)

(* The fields of a text separated by "-" *)
RECURSIVE Fields(_, _)
Fields(s, cur) ==
    IF s = <<>> THEN <<cur>>
    ELSE IF Head(s) = 45 THEN <<cur>> \o Fields(Tail(s), <<>>)
    ELSE Fields(Tail(s), Append(cur, Head(s)))

(* pd.to_datetime(text).dt.date of an ISO-8601 date text *)
to_date(s) == LET f == Fields(s, <<>>) IN <<Num(f[1]), Num(f[2]), Num(f[3])>>

(* datetime.date comparison *)
DateLess(a, b) ==
    \/ a[1] < b[1]
    \/ a[1] = b[1] /\ a[2] < b[2]
    \/ a[1] = b[1] /\ a[2] = b[2] /\ a[3] < b[3]

----------------------------------------------------------------------------
(* Store: the table workout_logs *)

(* Python's None, and a returned value v *)
None == <<>>
Some(v) == <<v>>

Ids(t) == {r.id : r \in t}

(* A plausible slip: INTEGER PRIMARY KEY without AUTOINCREMENT, where the new
   rowid is one more than the largest rowid now in the table *)
next_rowid_no_autoincrement(t, s) == Max(Ids(t) \cup {0}) + 1

(* id INTEGER PRIMARY KEY AUTOINCREMENT: one more than the largest rowid the
   table ever held, which sqlite_sequence remembers *)
next_rowid(t, s) == Max(Ids(t) \cup {s}) + 1

(* volume = sets * reps * weight *)
volume_of(sets, reps, weight) == sets * reps * weight

(* A plausible slip: INSERT OR REPLACE keyed on (workout_date, exercise), which
   merges a second set of the same exercise on the same day into the first *)
insert_log_merging(t, s, workout_date, exercise_text, sets, reps, weight) ==
    LET id == next_rowid(t, s)
        row == [id |-> id, workout_date |-> workout_date,
                exercise |-> strip(exercise_text), sets |-> sets, reps |-> reps,
                weight |-> weight, volume |-> volume_of(sets, reps, weight)]
        kept == {r \in t : ~(r.workout_date = row.workout_date
                             /\ r.exercise = row.exercise)}
    IN  [table |-> kept \cup {row}, seq |-> id, ret |-> None]

(* A plausible variant: the helper returns cur.lastrowid *)
insert_log_returning_id(t, s, workout_date, exercise_text, sets, reps, weight) ==
    LET id == next_rowid(t, s)
        row == [id |-> id, workout_date |-> workout_date,
                exercise |-> strip(exercise_text), sets |-> sets, reps |-> reps,
                weight |-> weight, volume |-> volume_of(sets, reps, weight)]
    IN  [table |-> t \cup {row}, seq |-> id, ret |-> Some(id)]

(* insert_log on the table t with sequence counter s: the table and counter
   after the commit, and what the function returns (it has no return
   statement) *)
insert_log(t, s, workout_date, exercise_text, sets, reps, weight) ==
    LET id == next_rowid(t, s)
        row == [id |-> id, workout_date |-> workout_date,
                exercise |-> strip(exercise_text), sets |-> sets, reps |-> reps,
                weight |-> weight, volume |-> volume_of(sets, reps, weight)]
    IN  [table |-> t \cup {row}, seq |-> id, ret |-> None]

(* A plausible slip: "<=" for "=" in the WHERE clause *)
delete_log_up_to(t, log_id) == {r \in t : r.id > log_id}

(* DELETE FROM workout_logs WHERE id = ? *)
delete_log(t, log_id) == {r \in t : r.id # log_id}

(* A plausible slip: ORDER BY id alone *)
RowBeforeById(a, b) == a.id < b.id

(* ORDER BY workout_date ASC, id ASC, on the stored text *)
RowBefore(a, b) ==
    \/ TextLess(a.workout_date, b.workout_date)
    \/ a.workout_date = b.workout_date /\ a.id < b.id

RECURSIVE OrderBy(_)
OrderBy(rows) ==
    IF rows = {} THEN <<>>
    ELSE LET first == CHOOSE r \in rows : \A o \in rows \ {r} : RowBefore(r, o)
         IN  <<first>> \o OrderBy(rows \ {first})

(* df["workout_date"] = pd.to_datetime(df["workout_date"]).dt.date *)
parse_dates(rows) ==
    [i \in 1..Len(rows) |-> [rows[i] EXCEPT !.workout_date = to_date(@)]]

(* load_logs: the rows in query order, workout_date parsed back to a date *)
load_logs(t) == parse_dates(OrderBy(t))

----------------------------------------------------------------------------
(* Aggregation over the data frame (a sequence of rows) *)

(* A plausible slip: .first() for .sum() *)
first_volume(frame) == IF frame = <<>> THEN 0 ELSE Head(frame).volume

(* ["volume"].sum() *)
RECURSIVE sum_volume(_)
sum_volume(frame) ==
    IF frame = <<>> THEN 0 ELSE Head(frame).volume + sum_volume(Tail(frame))

(* The dates of a set in ascending order *)
RECURSIVE sort_dates(_)
sort_dates(S) ==
    IF S = {} THEN <<>>
    ELSE LET least == CHOOSE x \in S : \A y \in S \ {x} : DateLess(x, y)
         IN  <<least>> \o sort_dates(S \ {least})

(* The texts of a set in ascending order *)
RECURSIVE sort_texts(_)
sort_texts(S) ==
    IF S = {} THEN <<>>
    ELSE LET least == CHOOSE x \in S : \A y \in S \ {x} : TextLess(x, y)
         IN  <<least>> \o sort_texts(S \ {least})

(* df.groupby("workout_date", as_index=False)["volume"].sum(): one row per
   date, in ascending order of the dates (groupby sorts its keys) *)
groupby_date(frame) ==
    LET keys == sort_dates({frame[i].workout_date : i \in 1..Len(frame)})
    IN  [k \in 1..Len(keys) |->
            [workout_date |-> keys[k],
             volume |-> sum_volume(SelectSeq(frame,
                            LAMBDA r : r.workout_date = keys[k]))]]

(* df.groupby("exercise", as_index=False)["volume"].sum(): one row per
   exercise, in ascending order of the names (groupby sorts its keys) *)
groupby_exercise(frame) ==
    LET keys == sort_texts({frame[i].exercise : i \in 1..Len(frame)})
    IN  [k \in 1..Len(keys) |->
            [exercise |-> keys[k],
             volume |-> sum_volume(SelectSeq(frame,
                            LAMBDA r : r.exercise = keys[k]))]]

(* .sort_values("workout_date"): the keys are distinct, so the order is
   determined *)
RECURSIVE sort_values_date(_)
sort_values_date(groups) ==
    IF groups = <<>> THEN <<>>
    ELSE LET k == CHOOSE i \in 1..Len(groups) : \A j \in 1..Len(groups) :
                      j # i => DateLess(groups[i].workout_date, groups[j].workout_date)
         IN  <<groups[k]>>
             \o sort_values_date(SubSeq(groups, 1, k - 1) \o SubSeq(groups, k + 1, Len(groups)))

(* A plausible slip: ascending=False left out *)
RECURSIVE sort_values_volume_ascending(_)
sort_values_volume_ascending(groups) ==
    IF groups = <<>> THEN {<<>>}
    ELSE UNION { { <<groups[k]>> \o rest :
                     rest \in sort_values_volume_ascending(
                         SubSeq(groups, 1, k - 1) \o SubSeq(groups, k + 1, Len(groups))) }
                 : k \in { i \in 1..Len(groups) : \A j \in 1..Len(groups) :
                                groups[i].volume <= groups[j].volume } }

(* .sort_values("volume", ascending=False): pandas sorts with kind="quicksort",
   which is not a stable sort, so rows of equal volume may come out in any
   order.  The set of all orders the sort may produce. *)
RECURSIVE sort_values_volume(_)
sort_values_volume(groups) ==
    IF groups = <<>> THEN {<<>>}
    ELSE UNION { { <<groups[k]>> \o rest :
                     rest \in sort_values_volume(
                         SubSeq(groups, 1, k - 1) \o SubSeq(groups, k + 1, Len(groups))) }
                 : k \in { i \in 1..Len(groups) : \A j \in 1..Len(groups) :
                                groups[j].volume <= groups[i].volume } }

(* daily, the frame plot_daily_volume plots *)
plot_daily_volume(frame) == sort_values_date(groupby_date(frame))

(* ex, the frame plot_volume_by_exercise plots: the orders it may have *)
plot_volume_by_exercise(frame) == sort_values_volume(groupby_exercise(frame))

(* .head(n) *)
head(frame, n) == SubSeq(frame, 1, IF n < Len(frame) THEN n ELSE Len(frame))

(* A plausible slip: ">" for ">=" in the date filter *)
filter_logs_after(frame, date_min, exercise_filter) ==
    LET by_date == SelectSeq(frame, LAMBDA r : DateLess(date_min, r.workout_date))
    IN  IF exercise_filter # {}
        THEN SelectSeq(by_date, LAMBDA r : r.exercise \in exercise_filter)
        ELSE by_date

(* filtered: the rows from date_min on and, when exercises are selected, of
   those exercises *)
filter_logs(frame, date_min, exercise_filter) ==
    LET by_date == SelectSeq(frame, LAMBDA r : ~DateLess(r.workout_date, date_min))
    IN  IF exercise_filter # {}
        THEN SelectSeq(by_date, LAMBDA r : r.exercise \in exercise_filter)
        ELSE by_date

----------------------------------------------------------------------------
(* The script main() *)

NoEvent == [widget |-> "none"]
NoCall == [fn |-> "none"]
NoView == [rendered |-> FALSE]

Init ==
    /\ table = {}
    /\ seq = 0
    /\ assigned = <<>>
    /\ event = NoEvent
    /\ call = NoCall
    /\ ret = None
    /\ msg = ""
    /\ df = <<>>
    /\ view = NoView
    /\ before = {}

(* A plausible slip: the emptiness test made on the raw text *)
is_blank_unstripped(exercise_text) == exercise_text = <<>>

(* not exercise.strip() *)
is_blank(exercise_text) == strip(exercise_text) = <<>>

(* The accepted branch of the add handler: insert_log, the success message *)
Insert(workout_date, exercise_text, sets, reps, weight) ==
    LET done == insert_log(table, seq, isoformat(workout_date),
                           exercise_text, sets, reps, weight)
    IN  /\ table' = done.table
        /\ seq' = done.seq
        /\ ret' = done.ret
        /\ assigned' = Append(assigned, done.seq)
        /\ call' = [fn |-> "insert_log", workout_date |-> workout_date,
                    exercise |-> exercise_text, sets |-> sets,
                    reps |-> reps, weight |-> weight]
        /\ msg' = "Added!"
        /\ before' = table
        /\ df' = load_logs(done.table)

(* Click on "Add Log".  Either branch ends in the script's df = load_logs():
   after st.rerun() when a row was added, further down the same run when not. *)
AddLog ==
    \E exercise_text \in ExerciseInputs :
        /\ event' = [widget |-> "add", exercise |-> exercise_text]
        /\ view' = NoView
        /\ IF is_blank(exercise_text)
           THEN /\ msg' = "Please enter an exercise name."
                /\ call' = NoCall
                /\ ret' = None
                /\ before' = {}
                /\ df' = load_logs(table)
                /\ UNCHANGED <<table, seq, assigned>>
           ELSE /\ Len(assigned) < MaxAdds
                /\ \E workout_date \in Dates, n \in NumberInputs :
                        Insert(workout_date, exercise_text, n[1], n[2], n[3])

(* Click on "Delete": the control is drawn only when df is not empty.  The
   run reloads df, after st.rerun() when delete_log was called. *)
DeleteLog ==
    /\ df # <<>>
    /\ \E del_id \in 0..(MaxAdds + 1) :
        /\ event' = [widget |-> "delete", del_id |-> del_id]
        /\ view' = NoView
        /\ ret' = None
        /\ before' = {}
        /\ UNCHANGED <<seq, assigned>>
        /\ IF del_id = 0
           THEN /\ msg' = "Enter a valid log id (non-zero)."
                /\ call' = NoCall
                /\ df' = load_logs(table)
                /\ UNCHANGED table
           ELSE /\ table' = delete_log(table, del_id)
                /\ call' = [fn |-> "delete_log", log_id |-> del_id]
                /\ msg' = "Deleted log id"
                /\ df' = load_logs(delete_log(table, del_id))

Next == AddLog \/ DeleteLog

Spec == Init /\ [][Next]_vars

----------------------------------------------------------------------------
(* The rendering of one script run, from a frame that is not empty (main()
   returns early when df is empty).  Every run draws all three tabs; the model
   has one action for the Logs tab, whose filter widgets are inputs, and one
   for the Dashboard and Trends tabs, so that the filter inputs and the order
   the sort produced do not multiply each other in the state space.  A run
   draws once: the actions are taken from a state in which nothing is drawn
   yet, the state the run's handler leaves. *)

(* The session whose tables SpecAgg renders: row i is logged with this
   exercise and date, with either value of "Sets".  Six names, one more than
   .head(5) keeps; from the seventh row on the names repeat.  The later date
   is logged first. *)
AggNames == << <<83>>, <<32, 66, 32>>, <<68>>, <<65>>, <<70>>, <<67>> >>
AggExercise(i) == AggNames[((i - 1) % Len(AggNames)) + 1]
AggDate(i) == IF i <= 3 THEN <<2024, 10, 2>> ELSE <<2024, 2, 10>>

(* The store after one more accepted add *)
SessionStep(db, done) ==
    [table |-> done.table, seq |-> done.seq, assigned |-> Append(db.assigned, done.seq)]

SessionAdd(db, i, sets) ==
    SessionStep(db, insert_log(db.table, db.seq, isoformat(AggDate(i)),
                               AggExercise(i), sets, RepsMin, MaxWeight))

(* The store after the first n adds of the session, from the empty store *)
RECURSIVE Session(_, _)
Session(n, sets) ==
    IF n = 0 THEN [table |-> {}, seq |-> 0, assigned |-> <<>>]
    ELSE SessionAdd(Session(n - 1, sets), n, sets[n])

(* A run of the script (a reload of the page) after the session's adds *)
InitAgg ==
    \E n \in 1..AggRows : \E sets \in [1..n -> SetsValues] :
        /\ table = Session(n, sets).table
        /\ seq = Session(n, sets).seq
        /\ assigned = Session(n, sets).assigned
        /\ event = NoEvent
        /\ call = NoCall
        /\ ret = None
        /\ msg = ""
        /\ df = load_logs(Session(n, sets).table)
        /\ view = NoView
        /\ before = {}

(* df["workout_date"].max() *)
max_date(S) == CHOOSE x \in S : \A y \in S \ {x} : DateLess(y, x)

unique(frame_column) == {frame_column[i] : i \in 1..Len(frame_column)}

(* The Logs tab: the filter widgets and the filtered table *)
RenderLogs ==
    /\ df # <<>>
    /\ ~view.rendered
    /\ \E date_min \in Dates :
       \E exercise_filter \in SUBSET unique([i \in 1..Len(df) |-> df[i].exercise]) :
            view' = [rendered |-> TRUE, tab |-> "logs",
                     date_min |-> date_min,
                     exercise_filter |-> exercise_filter,
                     filtered |-> filter_logs(df, date_min, exercise_filter)]
    /\ event' = NoEvent
    /\ call' = NoCall
    /\ ret' = None
    /\ msg' = ""
    /\ before' = {}
    /\ UNCHANGED <<table, seq, assigned, df>>

(* The Dashboard and Trends tabs: the summary numbers, the top exercises and
   the two plotted frames.  top_ex and ex are two evaluations of the same
   expression on the same frame in the same process, so they are cut from the
   same order. *)
RenderCharts ==
    /\ df # <<>>
    /\ ~view.rendered
    /\ LET stats == [rendered |-> TRUE, tab |-> "charts",
                      total_volume |-> sum_volume(df),
                      total_sessions |->
                          Cardinality(unique([i \in 1..Len(df) |-> df[i].workout_date])),
                      total_entries |-> Len(df),
                      last_day |-> max_date(unique([i \in 1..Len(df) |-> df[i].workout_date])),
                      daily |-> plot_daily_volume(df)]
       IN  \E ex \in plot_volume_by_exercise(df) :
              view' = [rendered |-> TRUE, tab |-> "charts",
                       total_volume |-> stats.total_volume,
                       total_sessions |-> stats.total_sessions,
                       total_entries |-> stats.total_entries,
                       last_day |-> stats.last_day,
                       top_ex |-> head(ex, TopN),
                       daily |-> stats.daily,
                       ex |-> ex]
    /\ event' = NoEvent
    /\ call' = NoCall
    /\ ret' = None
    /\ msg' = ""
    /\ before' = {}
    /\ UNCHANGED <<table, seq, assigned, df>>

NextAgg == RenderLogs \/ RenderCharts

SpecAgg == InitAgg /\ [][NextAgg]_vars

----------------------------------------------------------------------------
(* Vocabulary of the properties, written without the operators above *)

Range(q) == {q[i] : i \in 1..Len(q)}

AllSpace(s) == \A i \in 1..Len(s) : s[i] \in {9, 10, 11, 12, 13, 28, 29, 30, 31, 32}

(* t is raw without its leading and trailing whitespace *)
IsTrimOf(t, raw) ==
    /\ t # <<>> => ~AllSpace(<<t[1]>>) /\ ~AllSpace(<<t[Len(t)]>>)
    /\ \E i \in 0..Len(raw) :
        /\ i + Len(t) <= Len(raw)
        /\ SubSeq(raw, i + 1, i + Len(t)) = t
        /\ AllSpace(SubSeq(raw, 1, i))
        /\ AllSpace(SubSeq(raw, i + Len(t) + 1, Len(raw)))

(* q without its k-th element *)
RemoveAt(q, k) == SubSeq(q, 1, k - 1) \o SubSeq(q, k + 1, Len(q))

LastAssigned == assigned[Len(assigned)]

SameButId(a, b) == a.id # b.id /\ [a EXCEPT !.id = 0] = [b EXCEPT !.id = 0]

(* The sum of the volumes of the rows of frame at the positions I *)
RECURSIVE VolumeAt(_, _)
VolumeAt(frame, I) ==
    IF I = {} THEN 0
    ELSE LET i == CHOOSE x \in I : TRUE
         IN  frame[i].volume + VolumeAt(frame, I \ {i})

(* The position in df of the first row of an exercise *)
FirstRow(name) ==
    CHOOSE i \in 1..Len(df) :
        /\ df[i].exercise = name
        /\ \A j \in 1..(i - 1) : df[j].exercise # name

Charts == view.rendered /\ view.tab = "charts"
Logs == view.rendered /\ view.tab = "logs"

(* ex has one row per exercise of df, with the sum of its volumes, in
   descending order of volume *)
ExIsGroupedAndDescending ==
    LET ex == view.ex
        names == {df[i].exercise : i \in 1..Len(df)}
    IN  /\ Len(ex) = Cardinality(names)
        /\ {ex[k].exercise : k \in 1..Len(ex)} = names
        /\ \A k \in 1..Len(ex) :
              ex[k].volume
                = VolumeAt(df, {i \in 1..Len(df) : df[i].exercise = ex[k].exercise})
        /\ \A k \in 1..(Len(ex) - 1) : ex[k].volume >= ex[k + 1].volume

TopIsHeadOfEx ==
    /\ Len(view.top_ex) = (IF Len(view.ex) < 5 THEN Len(view.ex) ELSE 5)
    /\ \A k \in 1..Len(view.top_ex) : view.top_ex[k] = view.ex[k]

----------------------------------------------------------------------------
(* C1: an accepted add changes what load_logs returns by exactly one new row:
   the rows listed before are all still listed, in the same order, and the
   one new row carries the date given, the exercise without its surrounding
   whitespace, the sets, reps and weight given, and volume = sets * reps *
   weight.  This holds also when the arguments repeat those of an existing
   row: the add makes a second row and merges nothing. *)
C1_AddAppendsExactlyOneRow ==
    [][ msg' = "Added!" =>
          LET old == df
              new == df'
          IN  /\ Len(new) = Len(old) + 1
              /\ \E k \in 1..Len(new) :
                    /\ RemoveAt(new, k) = old
                    /\ new[k].id \notin {old[i].id : i \in 1..Len(old)}
                    /\ new[k].workout_date = call'.workout_date
                    /\ IsTrimOf(new[k].exercise, call'.exercise)
                    /\ new[k].sets = call'.sets
                    /\ new[k].reps = call'.reps
                    /\ new[k].weight = call'.weight
                    /\ new[k].volume = call'.sets * call'.reps * call'.weight
      ]_vars

(* Two adds with the same arguments have left two rows that differ in id only,
   with a volume that depends on all three factors *)
C1_Witness ==
    /\ msg = "Added!"
    /\ \E a \in table, b \in table :
          /\ SameButId(a, b)
          /\ b.id = LastAssigned
          /\ b.sets > 1 /\ b.reps > 1 /\ b.weight > 0
          /\ b.exercise # call.exercise

(* C2: an add whose exercise is empty or all whitespace shows the error, calls
   no database helper and leaves the table as it was; and no stored row ever
   has an empty exercise, an exercise with surrounding whitespace, sets < 1,
   reps < 1 or weight < 0. *)
C2_InvalidAddWritesNothing ==
    /\ [](\A r \in table :
            /\ r.exercise # <<>>
            /\ IsTrimOf(r.exercise, r.exercise)
            /\ r.sets >= 1 /\ r.reps >= 1 /\ r.weight >= 0)
    /\ [][ (event'.widget = "add" /\ AllSpace(event'.exercise)) =>
              /\ msg' = "Please enter an exercise name."
              /\ call' = NoCall
              /\ table' = table
              /\ df' = df
         ]_vars

(* A whitespace-only exercise was refused while rows were stored *)
C2_Witness ==
    /\ event = [widget |-> "add", exercise |-> <<32, 9>>]
    /\ msg = "Please enter an exercise name."
    /\ table # {}

(* C3: load_logs returns every stored row exactly once, ordered by date and,
   within a date, by id; and the stored ISO text of two rows compares as the
   dates they are parsed back into. *)
C3_ListAllOrdered ==
    /\ Len(df) = Cardinality(table)
    /\ {[df[i] EXCEPT !.workout_date = 0] : i \in 1..Len(df)}
         = {[r EXCEPT !.workout_date = 0] : r \in table}
    /\ \A i \in 1..Len(df) : \A j \in 1..Len(df) :
          i < j => \/ DateLess(df[i].workout_date, df[j].workout_date)
                   \/ /\ df[i].workout_date = df[j].workout_date
                      /\ df[i].id < df[j].id
    /\ \A a \in table, b \in table :
          /\ to_date(a.workout_date) \in Dates
          /\ TextLess(a.workout_date, b.workout_date)
               <=> DateLess(to_date(a.workout_date), to_date(b.workout_date))

(* A later date was inserted first: the listing does not follow the ids *)
C3_Witness ==
    /\ Len(df) >= 2
    /\ df[1].id > df[2].id
    /\ DateLess(df[1].workout_date, df[2].workout_date)

(* C4: the ids add has assigned are strictly increasing in call order (so
   pairwise distinct and never assigned twice), whatever was deleted in
   between; the stored rows have distinct ids among those assigned. *)
C4_IdsNeverReused ==
    /\ \A i \in 1..Len(assigned) : \A j \in 1..Len(assigned) :
          i < j => assigned[i] < assigned[j]
    /\ Ids(table) \subseteq Range(assigned)
    /\ Cardinality(Ids(table)) = Cardinality(table)

(* An add made after the row holding the largest id was deleted *)
C4_Witness ==
    /\ msg = "Added!"
    /\ Len(assigned) >= 2
    /\ assigned[Len(assigned) - 1] \notin Ids(before)
    /\ LastAssigned \in Ids(table)

(* C5: a delete of an id that is not stored shows the success message, not an
   error, and leaves the table as it was; after any delete the id is not
   stored, so the same delete again changes nothing. *)
C5_DeleteAbsentIsNoOp ==
    [][ (event'.widget = "delete" /\ event'.del_id # 0) =>
          /\ msg' = "Deleted log id"
          /\ event'.del_id \notin Ids(table')
          /\ event'.del_id \notin Ids(table) =>
                /\ table' = table
                /\ df' = df
      ]_vars

(* A delete of an id that was never assigned, with rows stored *)
C5_Witness ==
    /\ event.widget = "delete"
    /\ event.del_id # 0
    /\ call = [fn |-> "delete_log", log_id |-> event.del_id]
    /\ event.del_id \notin Range(assigned)
    /\ table # {}

(* C6, as the specification states it: add returns the id of the row it
   has just stored. *)
C6_AddReturnsAssignedId ==
    msg = "Added!" => ret = Some(LastAssigned)

(* C6, amended: add returns nothing (None); the id of the new row is the
   largest id load_logs shows after the call, larger than every id shown
   before it. *)
C6_AddReturnsNone ==
    [][ msg' = "Added!" =>
          LET old == df
              new == df'
              added == {new[i].id : i \in 1..Len(new)} \ {old[i].id : i \in 1..Len(old)}
          IN  /\ ret' = None
              /\ Cardinality(added) = 1
              /\ \A id \in added :
                    /\ \A i \in 1..Len(new) : new[i].id <= id
                    /\ \A i \in 1..Len(old) : old[i].id < id
      ]_vars

(* An add into a table that already holds a row *)
C6_Witness ==
    /\ msg = "Added!"
    /\ ret = None
    /\ before # {}
    /\ LastAssigned \in Ids(table) \ Ids(before)

(* C7, as the specification states it: the per-exercise totals are in
   descending order and, of two exercises with equal totals, the one whose
   first row comes earlier in the input comes first; the top exercises are
   the first five of that sequence. *)
C7_TiesInFirstEncounteredOrder ==
    Charts =>
        /\ ExIsGroupedAndDescending
        /\ TopIsHeadOfEx
        /\ \A j \in 1..Len(view.ex) : \A k \in 1..Len(view.ex) :
              (j < k /\ view.ex[j].volume = view.ex[k].volume)
                  => FirstRow(view.ex[j].exercise) < FirstRow(view.ex[k].exercise)

(* C7, amended: one row per exercise with the sum of its volumes, in
   descending order of total, equal totals in no particular order; the top
   exercises are the first five rows of that sequence. *)
C7_ByExerciseDescending ==
    Charts => ExIsGroupedAndDescending /\ TopIsHeadOfEx

(* Six exercises, so that the first five are a proper part; one exercise has
   two rows; and of two exercises with equal totals the one met later in the
   input comes first *)
C7_Witness ==
    /\ Charts
    /\ Len(view.ex) = 6
    /\ Len(view.top_ex) = 5
    /\ Len(df) > 6
    /\ \E j \in 1..6 : \E k \in 1..6 :
          /\ j < k
          /\ view.ex[j].volume = view.ex[k].volume
          /\ FirstRow(view.ex[j].exercise) > FirstRow(view.ex[k].exercise)

(* C8: daily has one row per date that occurs in df and no other, in
   ascending order of date, each with the sum of the volumes of that date's
   rows; the daily totals add up to the sum of volume over df, which is the
   total volume shown. *)
C8_DailyVolume ==
    Charts =>
        LET daily == view.daily
            dates == {df[i].workout_date : i \in 1..Len(df)}
        IN  /\ Len(daily) = Cardinality(dates)
            /\ {daily[k].workout_date : k \in 1..Len(daily)} = dates
            /\ \A k \in 1..(Len(daily) - 1) :
                  DateLess(daily[k].workout_date, daily[k + 1].workout_date)
            /\ \A k \in 1..Len(daily) :
                  daily[k].volume
                    = VolumeAt(df, {i \in 1..Len(df) :
                                      df[i].workout_date = daily[k].workout_date})
            /\ VolumeAt(daily, 1..Len(daily)) = VolumeAt(df, 1..Len(df))
            /\ view.total_volume = VolumeAt(df, 1..Len(df))

(* Two dates, one of them with rows of different volumes *)
C8_Witness ==
    /\ Charts
    /\ Len(view.daily) = 2
    /\ \E i \in 1..Len(df) : \E j \in 1..Len(df) :
          /\ df[i].workout_date = df[j].workout_date
          /\ df[i].volume # df[j].volume

(* C9, as the specification states it: for either aggregate and any filter,
   aggregating the filtered rows gives what aggregating all rows and then
   dropping the groups without a matching row gives.  (For the per-exercise
   totals: gives an order that the sort could have produced.) *)
C9_FilterThenAggregate ==
    Logs =>
        LET f == view.filtered
            dates == {f[i].workout_date : i \in 1..Len(f)}
            names == {f[i].exercise : i \in 1..Len(f)}
        IN  /\ plot_daily_volume(f)
                 = SelectSeq(plot_daily_volume(df), LAMBDA g : g.workout_date \in dates)
            /\ \A ex \in plot_volume_by_exercise(df) :
                  SelectSeq(ex, LAMBDA g : g.exercise \in names)
                      \in plot_volume_by_exercise(f)

(* C9, amended: the two orders agree when the filter tests the key of the
   grouping: a minimum date alone with the daily totals, an exercise selection
   alone with the per-exercise totals (up to the order of equal totals).  For
   any filter the filtered rows are the rows of df that pass it, in df's
   order, and each group of the aggregate of the filtered rows has at most
   the total of that group over all rows. *)
C9_FilterOnGroupingKey ==
    Logs =>
        LET f == view.filtered
            passes(r) == /\ ~DateLess(r.workout_date, view.date_min)
                         /\ view.exercise_filter # {} => r.exercise \in view.exercise_filter
            daily_f == plot_daily_volume(f)
            daily_all == plot_daily_volume(df)
        IN  /\ f = SelectSeq(df, passes)
            /\ view.exercise_filter = {} =>
                  daily_f = SelectSeq(daily_all,
                                LAMBDA g : ~DateLess(g.workout_date, view.date_min))
            /\ (\A i \in 1..Len(df) : ~DateLess(df[i].workout_date, view.date_min)) =>
                  plot_volume_by_exercise(f)
                    = { SelectSeq(ex, LAMBDA g : \/ view.exercise_filter = {}
                                                 \/ g.exercise \in view.exercise_filter)
                        : ex \in plot_volume_by_exercise(df) }
            /\ \A k \in 1..Len(daily_f) : \E j \in 1..Len(daily_all) :
                  /\ daily_all[j].workout_date = daily_f[k].workout_date
                  /\ daily_f[k].volume <= daily_all[j].volume

(* A minimum date alone that leaves out some rows and keeps others *)
C9_Witness ==
    /\ Logs
    /\ view.exercise_filter = {}
    /\ view.filtered # <<>>
    /\ Len(view.filtered) < Len(df)
    /\ \E i \in 1..Len(view.filtered) : view.filtered[i].workout_date = view.date_min

(* C10: a row, while stored, keeps all its fields; an add removes no row and
   gives the new row an id never assigned before; a delete removes the row
   with the given id and no other; a handler that calls no helper changes
   nothing; and a delete of the id just added restores the listing as it was
   before the add. *)
C10_RowsImmutableUntilDeleted ==
    [][ /\ \A r \in table : r.id \in Ids(table') => r \in table'
        /\ msg' = "Added!" =>
              /\ table \subseteq table'
              /\ Ids(table' \ table) \cap Range(assigned) = {}
        /\ event'.widget = "delete" =>
              /\ table' \subseteq table
              /\ Ids(table \ table') \subseteq {event'.del_id}
        /\ (msg = "Added!" /\ event'.widget = "delete"
               /\ event'.del_id = LastAssigned) =>
              /\ table' = before
              /\ load_logs(table') = load_logs(before)
      ]_vars

(* The row just added was deleted again, and the other rows are still there *)
C10_Witness ==
    /\ event.widget = "delete"
    /\ event.del_id = LastAssigned
    /\ event.del_id \notin Ids(table)
    /\ table # {}

====
